---- MODULE Spec2Model ----
(***************************************************************************)
(* Harmony Search for the number-pairing problem (src/main.py).            *)
(*                                                                         *)
(* Lists are sequences; a Python index k is position k + 1.  A fitness is  *)
(* a float in the code: here it is the record [inf, num], the exact value  *)
(* num / den of the target average it was computed for (den is num_pairs   *)
(* in a run), or +infinity.  Random draws are nondeterministic choices;    *)
(* random.random() is drawn in tenths, 0/10 .. 9/10, and the rates hmcr    *)
(* and par are held in the same unit.                                      *)
(***************************************************************************)
EXTENDS Integers, Sequences, FiniteSets

VARIABLES numbers, hms, hmcr, par, ni,
          pc, total_sum, num_pairs, target_average,
          harmony_memory, iteration, new_harmony, new_fitness,
          evaluated_best, result, call

vars == <<numbers, hms, hmcr, par, ni, pc, total_sum, num_pairs,
          target_average, harmony_memory, iteration, new_harmony,
          new_fitness, evaluated_best, result, call>>

\* ---- bounds of the model ------------------------------------------------
MaxLen == 4
MaxHms == 2
MaxNi == 10

\* `ni // 10` of the progress report
ProgressParts == 10

\* the numbers to pair
Values == {1, 2}
SeqsUpTo(S, n) == UNION {[1..k -> S] : k \in 0..n}

\* random.random() in tenths; <<hmcr, par>> in tenths: exploration only,
\* the rates of the example run, memory without and with pitch adjustment
Draws == 0..9
Rates == {<<0, 3>>, <<9, 3>>, <<10, 0>>, <<10, 10>>}

\* iteration counts on both sides of the first progress report
NiValues == {1, ProgressParts - 1} \cup (ProgressParts..MaxNi)

\* ---- fitness values -----------------------------------------------------
Fin(k) == [inf |-> FALSE, num |-> k]
Infinity == [inf |-> TRUE, num |-> 0]

\* a < b on floats
FitLess(a, b) == ~a.inf /\ (b.inf \/ a.num < b.num)
FitLeq(a, b) == b.inf \/ (~a.inf /\ a.num <= b.num)
\* a + b on floats
FitAdd(a, b) == IF a.inf \/ b.inf THEN Infinity ELSE Fin(a.num + b.num)
Abs(x) == IF x < 0 THEN -x ELSE x

Target(a, d) == [num |-> a, den |-> d]

\* ---- calculate_fitness --------------------------------------------------
\* |pair_sum - target_average|, in units of 1 / target_average.den
PairDeviation_NoAbs(pair_sum, target) == Fin(pair_sum * target.den - target.num)

PairDeviation(pair_sum, target) == Fin(Abs(pair_sum * target.den - target.num))

Penalty_Zero(pairs) == Fin(0)

\* float('inf') / num_pairs, for num_pairs >= 1
Penalty(pairs) == Infinity

RECURSIVE FitnessLoop(_, _, _, _, _)
FitnessLoop(harmony, pairs, target, i, total_deviation) ==
    IF i = pairs THEN total_deviation
    ELSE LET idx1 == 2 * i
             idx2 == 2 * i + 1
         IN IF idx1 < Len(harmony) /\ idx2 < Len(harmony)
            THEN FitnessLoop(harmony, pairs, target, i + 1,
                     FitAdd(total_deviation,
                            PairDeviation(harmony[idx1 + 1] + harmony[idx2 + 1], target)))
            ELSE FitnessLoop(harmony, pairs, target, i + 1,
                     FitAdd(total_deviation, Penalty(pairs)))

calculate_fitness(harmony, nums, target) ==
    IF harmony = <<>> THEN Infinity
    ELSE FitnessLoop(harmony, Len(nums) \div 2, target, 0, Fin(0))

\* ---- generate_random_harmony -------------------------------------------
Swap(x, i, j) == [x EXCEPT ![i + 1] = x[j + 1], ![j + 1] = x[i + 1]]

\* random.shuffle: for i from len-1 down to 1, j drawn from 0..i, swap
RECURSIVE ShuffleFrom(_, _)
ShuffleFrom(S, i) ==
    IF i < 1 THEN S
    ELSE ShuffleFrom({Swap(x, i, j) : x \in S, j \in 0..i}, i - 1)

generate_random_harmony_Short(nums) ==
    {SubSeq(h, 1, Len(h) - 1) : h \in ShuffleFrom({nums}, Len(nums) - 1)}

\* the set of lists the call can return
generate_random_harmony(nums) == ShuffleFrom({nums}, Len(nums) - 1)

ShuffleCopy_Alias(nums, harmony) == harmony

\* the caller's list after the call returned harmony: the call shuffles
\* harmony = numbers[:], a copy, so the list passed in keeps its contents
ShuffleCopy(nums, harmony) == nums

\* ---- apply_pitch_adjustment --------------------------------------------
\* random.sample(range(n), 2)
SamplePairs(n) == {p \in (0..(n - 1)) \X (0..(n - 1)) : p[1] # p[2]}

PitchAdjustment_Overwrite(harmony, idx) ==
    IF Len(harmony) < 2 THEN harmony
    ELSE [harmony EXCEPT ![idx[1] + 1] = harmony[idx[2] + 1]]

PitchAdjustment_ShortEmptied(harmony, idx) ==
    IF Len(harmony) < 2 THEN <<>>
    ELSE Swap(harmony, idx[1], idx[2])

\* idx is the sample <<idx1, idx2>> the call draws (unused on a short list)
apply_pitch_adjustment(harmony, idx) ==
    IF Len(harmony) < 2 THEN harmony
    ELSE Swap(harmony, idx[1], idx[2])

\* the set of lists the call can leave in (and return as) harmony
PitchAdjusted(harmony) ==
    IF Len(harmony) < 2 THEN {harmony}
    ELSE {apply_pitch_adjustment(harmony, idx) : idx \in SamplePairs(Len(harmony))}

\* ---- harmony memory -----------------------------------------------------
Record(h, f) == [harmony |-> h, fitness |-> f]

\* list.sort(key = fitness): stable, ascending
RECURSIVE InsertStable(_, _)
InsertStable(s, x) ==
    IF s = <<>> THEN <<x>>
    ELSE IF FitLess(x.fitness, s[Len(s)].fitness)
         THEN Append(InsertStable(SubSeq(s, 1, Len(s) - 1), x), s[Len(s)])
         ELSE Append(s, x)

RECURSIVE SortStable(_)
SortStable(s) ==
    IF s = <<>> THEN <<>>
    ELSE InsertStable(SortStable(SubSeq(s, 1, Len(s) - 1)), s[Len(s)])

SortByFitness_None(hm) == hm

SortByFitness(hm) == SortStable(hm)

ReplaceWorst_Append(hm, rec) == Append(hm, rec)

\* harmony_memory[-1] = rec
ReplaceWorst(hm, rec) == [hm EXCEPT ![Len(hm)] = rec]

IsBetter_Reversed(fitness, worst_fitness) == FitLess(worst_fitness, fitness)

IsBetter_OrEqual(fitness, worst_fitness) == ~FitLess(worst_fitness, fitness)

\* new_fitness < worst_fitness
IsBetter(fitness, worst_fitness) == FitLess(fitness, worst_fitness)

UpdateMemory(hm, h, f) ==
    IF IsBetter(f, hm[Len(hm)].fitness)
    THEN SortByFitness(ReplaceWorst(hm, Record(h, f)))
    ELSE hm

AdjustCopy_Alias(hm, k, adjusted) == [hm EXCEPT ![k].harmony = adjusted]

\* the memory after new_harmony = base_harmony[:] was pitch-adjusted into
\* adjusted: the adjustment works on a copy of record k's list
AdjustCopy(hm, k, adjusted) == hm

FitMin(a, b) == IF FitLess(b, a) THEN b ELSE a

RECURSIVE Sum(_)
Sum(s) == IF s = <<>> THEN 0 ELSE s[1] + Sum(Tail(s))

\* ---- results ------------------------------------------------------------
Pending == [kind |-> "pending", harmony |-> <<>>, fitness |-> Fin(0)]
Returned(h, f) == [kind |-> "list", harmony |-> h, fitness |-> f]
ReturnedNone(f) == [kind |-> "none", harmony |-> <<>>, fitness |-> f]

\* a direct call of one of the helpers: the list passed as harmony (a
\* mutable object, held with its contents before the call), the sample the
\* call drew, and what it returned
Call(fn, h) == [fn |-> fn, harmony |-> h, before |-> h, idx |-> <<0, 0>>,
                ret_harmony |-> <<>>, ret_fitness |-> Fin(0), done |-> FALSE]
NoCall == Call("none", <<>>)

\* ---- harmony_search_pairing --------------------------------------------
Locals0 ==
    /\ total_sum = 0
    /\ num_pairs = 0
    /\ target_average = Target(0, 1)
    /\ harmony_memory = <<>>
    /\ iteration = 0
    /\ new_harmony = <<>>
    /\ new_fitness = Fin(0)
    /\ evaluated_best = Infinity
    /\ result = Pending

Init ==
    /\ numbers \in SeqsUpTo(Values, MaxLen)
    /\ hms \in 1..MaxHms
    /\ \E rates \in Rates : hmcr = rates[1] /\ par = rates[2]
    /\ ni \in NiValues
    /\ pc = "Uninitialized"
    /\ Locals0
    /\ call = NoCall

Config == <<hms, hmcr, par, ni, call>>
Params == <<numbers, Config>>

OddLengthResult_Zero == ReturnedNone(Fin(0))

OddLengthResult == ReturnedNone(Infinity)

EmptyResult_None == ReturnedNone(Infinity)

EmptyResult == Returned(<<>>, Fin(0))

RejectOdd ==
    /\ pc = "Uninitialized"
    /\ Len(numbers) % 2 # 0
    /\ result' = OddLengthResult
    /\ pc' = "Returned"
    /\ UNCHANGED <<Params, total_sum, num_pairs, target_average, harmony_memory,
                   iteration, new_harmony, new_fitness, evaluated_best>>

ReturnEmpty ==
    /\ pc = "Uninitialized"
    /\ Len(numbers) % 2 = 0
    /\ Len(numbers) = 0
    /\ result' = EmptyResult
    /\ pc' = "Returned"
    /\ UNCHANGED <<Params, total_sum, num_pairs, target_average, harmony_memory,
                   iteration, new_harmony, new_fitness, evaluated_best>>

Setup ==
    /\ pc = "Uninitialized"
    /\ Len(numbers) % 2 = 0
    /\ Len(numbers) # 0
    /\ total_sum' = Sum(numbers)
    /\ num_pairs' = Len(numbers) \div 2
    /\ target_average' = Target(Sum(numbers), Len(numbers) \div 2)
    /\ harmony_memory' = <<>>
    /\ pc' = "Populating"
    /\ UNCHANGED <<Params, iteration, new_harmony, new_fitness, evaluated_best,
                   result>>

Populate ==
    /\ pc = "Populating"
    /\ Len(harmony_memory) < hms
    /\ \E harmony \in generate_random_harmony(numbers) :
          LET fitness == calculate_fitness(harmony, numbers, target_average)
          IN /\ numbers' = ShuffleCopy(numbers, harmony)
             /\ harmony_memory' = Append(harmony_memory, Record(harmony, fitness))
             /\ evaluated_best' = FitMin(evaluated_best, fitness)
    /\ UNCHANGED <<Config, pc, total_sum, num_pairs, target_average, iteration,
                   new_harmony, new_fitness, result>>

SortMemory ==
    /\ pc = "Populating"
    /\ Len(harmony_memory) = hms
    /\ harmony_memory' = SortByFitness(harmony_memory)
    /\ pc' = "Improvising"
    /\ UNCHANGED <<Params, total_sum, num_pairs, target_average, iteration,
                   new_harmony, new_fitness, evaluated_best, result>>

\* lines 115-130 for the candidate h, with the number list nums and the
\* memory hm as the improvisation left them
Evaluate(h, nums, hm) ==
    LET f == calculate_fitness(h, nums, target_average)
    IN /\ numbers' = nums
       /\ new_harmony' = h
       /\ new_fitness' = f
       /\ evaluated_best' = FitMin(evaluated_best, f)
       /\ harmony_memory' = UpdateMemory(hm, h, f)
       /\ IF ni \div ProgressParts = 0
          THEN pc' = "Raised" /\ iteration' = iteration
          ELSE pc' = pc /\ iteration' = iteration + 1
       /\ UNCHANGED <<Config, total_sum, num_pairs, target_average, result>>

ConsiderMemory ==
    /\ pc = "Improvising"
    /\ iteration < ni
    /\ {rand_hmcr \in Draws : rand_hmcr < hmcr} # {}
    /\ \E base_harmony_idx \in 0..(hms - 1) :
          LET base_harmony == harmony_memory[base_harmony_idx + 1].harmony
          IN \/ /\ {rand_par \in Draws : rand_par < par} # {}
                /\ \E harmony \in PitchAdjusted(base_harmony) :
                      Evaluate(harmony, numbers,
                               AdjustCopy(harmony_memory, base_harmony_idx + 1,
                                          harmony))
             \/ /\ {rand_par \in Draws : ~(rand_par < par)} # {}
                /\ Evaluate(base_harmony, numbers, harmony_memory)

ImproviseRandom ==
    /\ pc = "Improvising"
    /\ iteration < ni
    /\ {rand_hmcr \in Draws : ~(rand_hmcr < hmcr)} # {}
    /\ \E harmony \in generate_random_harmony(numbers) :
          Evaluate(harmony, ShuffleCopy(numbers, harmony), harmony_memory)

BestSolution_Last(hm) == hm[Len(hm)]

\* best_solution = harmony_memory[0]
BestSolution(hm) == hm[1]

Finish ==
    /\ pc = "Improvising"
    /\ iteration = ni
    /\ result' = Returned(BestSolution(harmony_memory).harmony,
                          BestSolution(harmony_memory).fitness)
    /\ pc' = "Returned"
    /\ UNCHANGED <<Params, total_sum, num_pairs, target_average, harmony_memory,
                   iteration, new_harmony, new_fitness, evaluated_best>>

Next ==
    \/ RejectOdd
    \/ ReturnEmpty
    \/ Setup
    \/ Populate
    \/ SortMemory
    \/ ConsiderMemory
    \/ ImproviseRandom
    \/ Finish

Spec == Init /\ [][Next]_vars

\* ---- the run of the perfect-pairing example ---------------------------
\* memory sizes of the example runs (the example itself keeps 10 records)
PerfectHms == {1, 2}

InitPerfect ==
    /\ numbers = <<1, 2, 3, 4>>
    /\ hms \in PerfectHms
    /\ hmcr = 9
    /\ par = 3
    /\ ni \in ProgressParts..MaxNi
    /\ pc = "Uninitialized"
    /\ Locals0
    /\ call = NoCall

NextPerfect ==
    \/ Setup
    \/ Populate
    \/ SortMemory
    \/ ConsiderMemory
    \/ ImproviseRandom
    \/ Finish

SpecPerfect == InitPerfect /\ [][NextPerfect]_vars

\* ---- direct calls of calculate_fitness and apply_pitch_adjustment -----
\* a permutation of the number set, or one cut short
Truncations(nums) ==
    {SubSeq(h, 1, k) : h \in generate_random_harmony(nums), k \in 0..Len(nums)}

\* target averages: 0 .. 8 in halves and wholes
Targets == {Target(a, d) : a \in 0..8, d \in {1, 2}}

InitCalls ==
    /\ hms = 1 /\ hmcr = 0 /\ par = 0 /\ ni = 1
    /\ pc = "Call"
    /\ total_sum = 0
    /\ num_pairs = 0
    /\ harmony_memory = <<>>
    /\ iteration = 0
    /\ new_harmony = <<>>
    /\ new_fitness = Fin(0)
    /\ evaluated_best = Infinity
    /\ result = Pending
    /\ \/ /\ numbers \in SeqsUpTo(Values, MaxLen)
          /\ target_average \in Targets
          /\ call \in {Call("calculate_fitness", h) : h \in Truncations(numbers)}
       \/ /\ numbers = <<>>
          /\ target_average = Target(0, 1)
          /\ call \in {Call("apply_pitch_adjustment", h) :
                          h \in SeqsUpTo(Values, MaxLen)}

Frame == <<numbers, hms, hmcr, par, ni, pc, total_sum, num_pairs,
           target_average, harmony_memory, iteration, new_harmony,
           new_fitness, evaluated_best, result>>

CallFitness ==
    /\ pc = "Call"
    /\ call.fn = "calculate_fitness"
    /\ ~call.done
    /\ call' = [call EXCEPT
                   !.ret_fitness = calculate_fitness(call.harmony, numbers,
                                                     target_average),
                   !.done = TRUE]
    /\ UNCHANGED Frame

CallPitchAdjustment ==
    /\ pc = "Call"
    /\ call.fn = "apply_pitch_adjustment"
    /\ ~call.done
    /\ \E idx \in IF Len(call.harmony) < 2 THEN {call.idx}
                    ELSE SamplePairs(Len(call.harmony)) :
          LET harmony == apply_pitch_adjustment(call.harmony, idx)
          IN call' = [call EXCEPT !.idx = idx, !.harmony = harmony,
                                  !.ret_harmony = harmony, !.done = TRUE]
    /\ UNCHANGED Frame

NextCalls ==
    \/ CallFitness
    \/ CallPitchAdjustment

SpecCalls == InitCalls /\ [][NextCalls]_vars

\* ---- properties --------------------------------------------------------
Count(s, v) == Cardinality({i \in DOMAIN s : s[i] = v})
Elements(s) == {s[i] : i \in DOMAIN s}
SameMultiset(a, b) ==
    /\ Len(a) = Len(b)
    /\ \A v \in Elements(a) \cup Elements(b) : Count(a, v) = Count(b, v)

ValidInput == Len(numbers) % 2 = 0 /\ Len(numbers) # 0
Initialized == pc \in {"Improvising", "Raised"} \/ (pc = "Returned" /\ ValidInput)
Converged == pc = "Returned" /\ ValidInput
BestFitness == harmony_memory[1].fitness
WorstFitness == harmony_memory[Len(harmony_memory)].fitness
CandidateStored ==
    \E i \in DOMAIN harmony_memory :
        harmony_memory[i] = Record(new_harmony, new_fitness)

\* C1: every harmony in the harmony memory, at every point of a run, and
\* the permutation the run returns, has the multiset of elements of the
\* input number set.
C1_PermutationInvariant ==
    /\ \A i \in DOMAIN harmony_memory :
          SameMultiset(harmony_memory[i].harmony, numbers)
    /\ (result.kind = "list" => SameMultiset(result.harmony, numbers))

\* a pitch-adjusted copy that differs from its base was stored and returned
C1_Witness ==
    /\ Converged
    /\ hmcr = 10 /\ par = 10
    /\ CandidateStored
    /\ result.harmony # numbers

\* C2: from the end of initialization on, after every iteration, accepted
\* or not, the harmony memory holds exactly hms records.
C2_SizeInvariant ==
    /\ (Initialized => Len(harmony_memory) = hms)
    /\ (pc = "Populating" => Len(harmony_memory) <= hms)

\* an iteration replaced the worst of two records
C2_Witness ==
    /\ pc = "Improvising" /\ iteration >= 1 /\ hms = 2
    /\ CandidateStored
    /\ FitLess(new_fitness, WorstFitness)

\* C3: from the end of initialization on, after every iteration, the
\* harmony memory is non-decreasing by fitness from first to last.
C3_Sorted ==
    Initialized =>
        \A i, j \in DOMAIN harmony_memory :
            i < j => FitLeq(harmony_memory[i].fitness, harmony_memory[j].fitness)

\* an accepted candidate was sorted in front of an older record
C3_Witness ==
    /\ pc = "Improvising" /\ iteration >= 1 /\ hms = MaxHms
    /\ harmony_memory[1] = Record(new_harmony, new_fitness)
    /\ FitLess(BestFitness, WorstFitness)

\* C4: an iteration never makes the fitness of the first record worse.
C4_MonotonicBest ==
    [][(pc = "Improvising" /\ pc' \in {"Improvising", "Raised"})
         => FitLeq(harmony_memory'[1].fitness, harmony_memory[1].fitness)]_vars

\* the last iteration strictly improved the best fitness
C4_Witness ==
    /\ pc = "Improvising" /\ iteration >= 2 /\ hms = 2
    /\ harmony_memory[1] = Record(new_harmony, new_fitness)
    /\ FitLess(new_fitness, harmony_memory[2].fitness)

\* C5: on even-length non-empty input a run never aborts, and returns only
\* after exactly ni iterations, with a permutation and its fitness.
C5_RunsAllIterations ==
    ValidInput =>
        /\ pc # "Raised"
        /\ (pc = "Returned" => iteration = ni /\ result.kind = "list")

\* C6: on odd-length input the call returns (None, +infinity) and neither
\* builds a harmony memory nor runs an iteration.
C6_OddLength ==
    Len(numbers) % 2 # 0 =>
        /\ pc \in {"Uninitialized", "Returned"}
        /\ (pc = "Returned" => result = ReturnedNone(Infinity))
        /\ harmony_memory = <<>>
        /\ iteration = 0
        /\ evaluated_best = Infinity

C6_Witness == pc = "Returned" /\ Len(numbers) = 3 /\ result.kind = "none"

\* C7: on the empty input the call returns ([], 0) and neither builds a
\* harmony memory nor runs an iteration.
C7_ZeroLength ==
    numbers = <<>> =>
        /\ pc \in {"Uninitialized", "Returned"}
        /\ (pc = "Returned" => result = Returned(<<>>, Fin(0)))
        /\ harmony_memory = <<>>
        /\ iteration = 0
        /\ evaluated_best = Infinity

C7_Witness == pc = "Returned" /\ numbers = <<>> /\ result.kind = "list"

PairSums(h) == [i \in 1..(Len(h) \div 2) |-> h[2 * i - 1] + h[2 * i]]
\* sum over the pairs of |pair sum - target|, in units of 1 / target.den
TotalDeviation(h, target) ==
    Sum([i \in 1..(Len(h) \div 2) |->
            Abs(PairSums(h)[i] * target.den - target.num)])
FitnessCallOnPermutation ==
    /\ call.fn = "calculate_fitness" /\ call.done
    /\ ValidInput
    /\ SameMultiset(call.before, numbers)

\* C9: on a full permutation of a non-empty even-length number set,
\* calculate_fitness returns the sum over the consecutive pairs of
\* |pair sum - target_average|: never negative, and 0 exactly when every
\* pair sums to the target average; it leaves the harmony as it was.
C9_Fitness ==
    /\ FitnessCallOnPermutation =>
          /\ call.ret_fitness = Fin(TotalDeviation(call.before, target_average))
          /\ ~call.ret_fitness.inf /\ call.ret_fitness.num >= 0
          /\ (call.ret_fitness = Fin(0) <=>
                \A i \in 1..(Len(call.before) \div 2) :
                    PairSums(call.before)[i] * target_average.den
                        = target_average.num)
          /\ call.harmony = call.before
    /\ calculate_fitness(<<1, 9, 2, 8>>, <<1, 9, 2, 8>>, Target(5, 1)) = Fin(10)
    /\ calculate_fitness(<<1, 4, 2, 3>>, <<1, 2, 3, 4>>, Target(5, 1)) = Fin(0)

\* a permutation with unequal pair deviations was scored above 0
C9_Witness ==
    /\ FitnessCallOnPermutation
    /\ call.before = <<1, 1, 2, 2>>
    /\ target_average = Target(6, 2)
    /\ call.ret_fitness = Fin(4)

Differing(a, b) == {k \in DOMAIN a : a[k] # b[k]}
PitchCallOnPair ==
    /\ call.fn = "apply_pitch_adjustment" /\ call.done
    /\ Len(call.before) >= 2

\* C10: on a harmony of length >= 2, apply_pitch_adjustment draws two
\* distinct positions and returns the harmony with exactly their contents
\* exchanged: the same multiset, differing from the input in at most 2
\* positions, and in none only when the two positions hold equal values.
C10_Swap ==
    PitchCallOnPair =>
        LET i == call.idx[1] + 1
            j == call.idx[2] + 1
        IN /\ i # j
           /\ i \in DOMAIN call.before /\ j \in DOMAIN call.before
           /\ call.ret_harmony = call.harmony
           /\ DOMAIN call.harmony = DOMAIN call.before
           /\ \A k \in DOMAIN call.before :
                 call.harmony[k] = IF k = i THEN call.before[j]
                                   ELSE IF k = j THEN call.before[i]
                                   ELSE call.before[k]
           /\ SameMultiset(call.harmony, call.before)
           /\ Cardinality(Differing(call.harmony, call.before)) <= 2
           /\ (Differing(call.harmony, call.before) = {}
                 => call.before[i] = call.before[j])

\* a swap of two unequal values changed exactly two positions
C10_Witness ==
    /\ PitchCallOnPair
    /\ Cardinality(Differing(call.harmony, call.before)) = 2

PitchCallOnShort ==
    /\ call.fn = "apply_pitch_adjustment" /\ call.done
    /\ Len(call.before) < 2

\* C11: on an empty or single-element harmony apply_pitch_adjustment
\* returns the harmony with its contents unchanged and draws no sample.
C11_NoOp ==
    PitchCallOnShort =>
        /\ call.harmony = call.before
        /\ call.ret_harmony = call.before
        /\ call.idx = <<0, 0>>

\* the call returned on a single-element harmony
C11_Witness == PitchCallOnShort /\ Len(call.before) = 1

\* an improvisation iteration: a candidate was built, scored and offered
IterationStep ==
    /\ pc = "Improvising"
    /\ pc' \in {"Improvising", "Raised"}
    /\ (iteration' = iteration + 1 \/ pc' = "Raised")

\* C12: no step of a run changes the caller's number sequence: it keeps
\* its elements in their order from the call to the return.
C12_InputImmutable == [][numbers' = numbers]_vars

\* a shuffle produced another order and the input kept its own
C12_Witness ==
    /\ Converged /\ hmcr = 0
    /\ new_harmony # numbers
    /\ \E i \in DOMAIN harmony_memory : harmony_memory[i].harmony # numbers

\* C13: in an iteration a candidate strictly below the worst fitness
\* replaces exactly the last record, the other records being kept (then
\* sorted); any other candidate, a tie included, leaves the harmony
\* memory exactly as it was.
C13_ReplaceWorst ==
    [][IterationStep =>
         IF FitLess(new_fitness', WorstFitness)
         THEN /\ SameMultiset(harmony_memory',
                     [harmony_memory EXCEPT ![Len(harmony_memory)] =
                           Record(new_harmony', new_fitness')])
              /\ \E i \in DOMAIN harmony_memory' :
                    harmony_memory'[i] = Record(new_harmony', new_fitness')
         ELSE harmony_memory' = harmony_memory]_vars

\* a candidate that ties with the worst record was discarded
C13_Witness ==
    /\ pc = "Improvising" /\ iteration >= 1 /\ hms = 2
    /\ new_fitness = WorstFitness
    /\ FitLess(BestFitness, WorstFitness)
    /\ ~CandidateStored

\* C14: a run that completes its iterations returns the first record of
\* the final harmony memory, and no record has a lower fitness.
C14_ResultIsBest ==
    Converged =>
        /\ iteration = ni
        /\ result = Returned(harmony_memory[1].harmony, harmony_memory[1].fitness)
        /\ \A i \in DOMAIN harmony_memory :
              FitLeq(result.fitness, harmony_memory[i].fitness)

\* the returned record is strictly better than the last one
C14_Witness ==
    /\ Converged /\ hms = 2
    /\ FitLess(result.fitness, WorstFitness)

\* some pair index 2i or 2i+1, i < len(numbers) // 2, is past the harmony
PairOutOfRange(h, nums) ==
    \E i \in 0..((Len(nums) \div 2) - 1) : 2 * i + 1 >= Len(h)
MalformedFitnessCall ==
    /\ call.fn = "calculate_fitness" /\ call.done
    /\ \/ call.before = <<>>
       \/ /\ numbers # <<>>
          /\ Len(call.before) < Len(numbers)
          /\ PairOutOfRange(call.before, numbers)

\* C15: calculate_fitness on an empty harmony, or on a non-empty harmony
\* shorter than the non-empty number set with some pair index out of
\* range, returns +infinity.
C15_Malformed == MalformedFitnessCall => call.ret_fitness = Infinity

\* a non-empty harmony one element short was scored +infinity
C15_Witness ==
    /\ MalformedFitnessCall
    /\ Len(numbers) = 4 /\ Len(call.before) = 3
    /\ call.ret_fitness.inf

\* C16: every harmony a run passes to calculate_fitness, at
\* initialization and in every iteration, has the length of the number
\* set, and every fitness it stores is finite.
C16_NoPenalty ==
    /\ \A i \in DOMAIN harmony_memory :
          /\ Len(harmony_memory[i].harmony) = Len(numbers)
          /\ ~harmony_memory[i].fitness.inf
    /\ ((pc \in {"Improvising", "Raised", "Returned"} /\ new_harmony # <<>>) =>
          /\ Len(new_harmony) = Len(numbers)
          /\ ~new_fitness.inf)
    /\ (harmony_memory # <<>> => ~evaluated_best.inf)

\* candidates from the memory and from a fresh shuffle were both scored
C16_Witness ==
    /\ Converged /\ hmcr = 9
    /\ Len(new_harmony) = 4
    /\ ~CandidateStored

\* C17: the fitness stored in each record of the harmony memory is
\* calculate_fitness of the harmony stored with it, for the target
\* average of the run.
C17_StoredFitness ==
    \A i \in DOMAIN harmony_memory :
        harmony_memory[i].fitness =
            calculate_fitness(harmony_memory[i].harmony, numbers, target_average)

\* a pitch-adjusted copy scored differently from its base was discarded
C17_Witness ==
    /\ pc = "Improvising" /\ iteration >= 1
    /\ hmcr = 10 /\ par = 10
    /\ FitLess(WorstFitness, new_fitness)

\* C18: from the end of initialization on, the fitness of the first
\* record is the lowest fitness of all harmonies evaluated so far.
C18_BestKept == Initialized => BestFitness = evaluated_best

\* a candidate worse than the best evaluated so far was discarded
C18_Witness ==
    /\ pc = "Improvising" /\ iteration >= 1 /\ hms = 2
    /\ FitLess(evaluated_best, new_fitness)
    /\ ~CandidateStored

\* C19: an iteration never makes the fitness of the last record worse.
C19_MonotonicWorst ==
    [][IterationStep =>
         FitLeq(harmony_memory'[Len(harmony_memory')].fitness, WorstFitness)]_vars

\* an iteration replaced the worst record by a perfect candidate
C19_Witness ==
    /\ pc = "Improvising" /\ iteration >= 1 /\ hms = MaxHms
    /\ new_fitness = Fin(0)
    /\ harmony_memory[1] = Record(new_harmony, new_fitness)
    /\ FitLess(Fin(0), harmony_memory[2].fitness)

====
